---- MODULE Spec2Model ----
(***************************************************************************)
(* A model of oauthenticator/cilogon.py.                                   *)
(*                                                                         *)
(*   CILogonOAuthenticator.authenticate is a tornado coroutine: it runs    *)
(*   from one `yield` to the next without interruption, so every login     *)
(*   attempt is three steps (up to the token fetch, up to the userinfo     *)
(*   fetch, up to the return or raise).                                    *)
(*                                                                         *)
(*   LocalCILogonMapOAuthenticator.normalize_username is a plain method    *)
(*   (no yield): one call is one step.  The map file belongs to the        *)
(*   administrator, who changes it between calls.                          *)
(*                                                                         *)
(* Four specifications share the variables:                                *)
(*   SpecAuth     logins one after the other, every input of the bounds    *)
(*   SpecHub      logins that overlap at the two yields                    *)
(*   SpecMap      normalize_username calls one after the other             *)
(*   SpecThreads  normalize_username calls that overlap, statement by      *)
(*                statement                                                *)
(*                                                                         *)
(* Strings that the code inspects character by character (usernames, map   *)
(* file tokens) are sequences of one-character strings; opaque strings     *)
(* (codes, tokens, claim names) are TLA+ strings.                          *)
(***************************************************************************)
EXTENDS Integers, Sequences, FiniteSets, TLC

(***************************************************************************)
(* Bounds of the model.                                                    *)
(***************************************************************************)
MaxNameLen == 3         \* longest claim value in a userinfo response
MaxAdditional == 1      \* longest additional_username_claims list
MaxWhitelist == 2       \* longest idp_whitelist list
MaxUserLen == 2         \* longest username given to normalize_username
MaxLines == 2           \* most lines of the map file
MaxMtime == 2           \* latest modification time of the map file

\* the coroutine frames of authenticate the hub holds at a time
Attempts == {1, 2}

(***************************************************************************)
(* The values a login attempt sees.                                        *)
(***************************************************************************)
Alphabet == {"a", "@"}

SeqsUpTo(S, n) == UNION {[1..k -> S] : k \in 0..n}

\* every string of at most n characters
StringsUpTo(n) == SeqsUpTo(Alphabet, n)

\* Python's None: what dict.get returns for a missing key, and the value of a
\* local that was not assigned yet
None == <<"None">>

\* a JSON value that is truthy and is not a string (a non-empty list)
NonString == <<"list">>

ClaimNames == {"eppn", "email"}

ClaimValues == StringsUpTo(MaxNameLen) \cup {NonString}

\* the parsed body of a userinfo response: claim name -> claim value
UserInfos == UNION {[D -> ClaimValues] : D \in SUBSET ClaimNames}

AccessTokens == {"t1", "t2"}

\* the parsed body of a token response; the broker may leave access_token out
TokenResponses ==
    {[access_token |-> t, token_type |-> "Bearer"] : t \in AccessTokens}
        \cup {[token_type |-> "Bearer"]}

\* the authorization code the broker issued for attempt a (single-use, so no
\* two attempts share one); "missing" is a callback without ?code=
IssuedCode(a) == "c" \o ToString(a)

Codes(a) == {IssuedCode(a), "missing"}

\* what a local holds before its assignment
NoJson == [unset |-> TRUE]

\* what AsyncHTTPClient.fetch delivers: the status (599: no response at all)
\* and the body, as the JSON it parses to (valid_json false: it does not parse)
Outcomes(bodies) ==
    {[status |-> 200, valid_json |-> TRUE, json |-> j] : j \in bodies}
        \cup {[status |-> 200, valid_json |-> FALSE, json |-> NoJson],
              [status |-> 400, valid_json |-> TRUE, json |-> NoJson],
              [status |-> 599, valid_json |-> FALSE, json |-> NoJson]}

TokenOutcomes == Outcomes(TokenResponses)

UserInfoOutcomes == Outcomes(UserInfos)

\* the identity providers an operator may list
Idps == {<<"a">>, <<"a", "a">>}

\* an exception leaving authenticate
Exc(e, s, m) == [exc |-> e, status |-> s, log_message |-> m]

NoExc == Exc("", 0, "")

VARIABLES
    \* CILogonOAuthenticator configuration (traitlets)
    username_claim,
    additional_username_claims,
    idp_whitelist,
    strip_idp_domain,
    \* one coroutine frame of authenticate per attempt
    pc,               \* "start", "token_fetch", "userinfo_fetch", "returned", "raised"
    code,
    token_response,
    access_token,
    resp_json,
    username,
    userdict,         \* the value authenticate returned
    raised,           \* the exception authenticate raised
    \* the broker, as the attempt saw it
    requests,         \* the HTTP requests the attempt sent, in order
    responses,        \* the fetch outcomes delivered to the attempt, in order
    claimed,          \* username as the claim loop left it (line 180)
    \* LocalCILogonMapOAuthenticator
    full_names,       \* configuration (traitlets)
    prev_map_mtime,
    username_map,
    mapfile,          \* the file at the path self.mapfile
    call,             \* the normalize_username call that is returning
    edited,           \* the file's lines changed since the hub last read them
    thread            \* the normalize_username calls under way, one frame each

config_vars ==
    <<username_claim, additional_username_claims, idp_whitelist, strip_idp_domain>>

frame_vars ==
    <<pc, code, token_response, access_token, resp_json, username, userdict,
      raised, requests, responses, claimed>>

auth_vars == <<config_vars, frame_vars>>

map_vars == <<full_names, prev_map_mtime, username_map, mapfile, call, edited, thread>>

vars == <<auth_vars, map_vars>>

(***************************************************************************)
(* Python, as authenticate uses it.                                        *)
(***************************************************************************)
Range(f) == {f[i] : i \in DOMAIN f}

\* dict.get(key): None for a missing key
Get(d, key) == IF key \in DOMAIN d THEN d[key] ELSE None

\* `is not None` in the place of bool(value)
NotNone(value) == value # None

\* bool(value) of a claim value: None and the empty string are false
Truthy(value) == value # None /\ value # <<>>

IsString(value) == value # None /\ value # NonString

\* str.split(sep) from position i on, with the part collected so far
RECURSIVE SplitFrom(_, _, _, _)
SplitFrom(s, sep, i, part) ==
    IF i > Len(s) THEN <<part>>
    ELSE IF s[i] = sep THEN <<part>> \o SplitFrom(s, sep, i + 1, <<>>)
    ELSE SplitFrom(s, sep, i + 1, Append(part, s[i]))

\* str.rsplit(sep, 1): only the last separator splits
RSplitOnce(s, sep) ==
    LET at == {i \in 1..Len(s) : s[i] = sep}
    IN  IF at = {} THEN <<s>>
        ELSE LET last == CHOOSE i \in at : \A j \in at : j <= i
             IN  <<SubSeq(s, 1, last - 1), SubSeq(s, last + 1, Len(s))>>

Split(s, sep) == SplitFrom(s, sep, 1, <<>>)

(***************************************************************************)
(* authenticate, lines 172-198: claim resolution and the idp whitelist.    *)
(***************************************************************************)
claimlist == <<username_claim>> \o additional_username_claims

\* the for loop without its break: every claim is read, the last one stays
ClaimLoopNoBreak(json, claims, i) == Get(json, claims[Len(claims)])

\* the for loop over claimlist: the value of `username` when the loop ends
RECURSIVE ClaimLoop(_, _, _)
ClaimLoop(json, claims, i) ==
    LET value == Get(json, claims[i])
    IN  IF Truthy(value) \/ i = Len(claims) THEN value
        ELSE ClaimLoop(json, claims, i + 1)

UsernameNotFound == Exc("web.HTTPError", 500, "Failed to get username from CILogon")

NotWhitelisted == Exc("web.HTTPError", 500, "Trying to login from not whitelisted domain")

\* username.split('@') of a value with no split method
NoSplit == Exc("AttributeError", 0, "")

\* gotten_name, gotten_idp = ... of a list that has not two entries
BadUnpack == Exc("ValueError", 0, "")

\* the strip flag alone, whatever the length of the whitelist
StripFlagOnly(whitelist, strip) == strip

\* `len(self.idp_whitelist) == 1 and self.strip_idp_domain`
ShouldStrip(whitelist, strip) == Len(whitelist) = 1 /\ strip

\* the whitelist block logging the foreign idp without raising
WhitelistLogOnly(name, whitelist, strip) ==
    IF whitelist = <<>> THEN [raised |-> NoExc, username |-> name]
    ELSE IF ~IsString(name) THEN [raised |-> NoSplit, username |-> name]
    ELSE LET parts == Split(name, "@")
         IN  IF Len(parts) # 2 THEN [raised |-> BadUnpack, username |-> name]
             ELSE [raised |-> NoExc,
                   username |-> IF ShouldStrip(whitelist, strip)
                                THEN parts[1] ELSE name]

\* the whitelist block without `if self.idp_whitelist:` around it
WhitelistAlways(name, whitelist, strip) ==
    IF ~IsString(name) THEN [raised |-> NoSplit, username |-> name]
    ELSE LET parts == Split(name, "@")
         IN  IF Len(parts) # 2 THEN [raised |-> BadUnpack, username |-> name]
             ELSE IF parts[2] \notin Range(whitelist)
                  THEN [raised |-> NotWhitelisted, username |-> name]
                  ELSE [raised |-> NoExc,
                        username |-> IF ShouldStrip(whitelist, strip)
                                     THEN parts[1] ELSE name]

\* the whitelist block: the exception it raises, or the username it leaves
Whitelist(name, whitelist, strip) ==
    IF whitelist = <<>> THEN [raised |-> NoExc, username |-> name]
    ELSE IF ~IsString(name) THEN [raised |-> NoSplit, username |-> name]
    ELSE LET parts == Split(name, "@")
         IN  IF Len(parts) # 2 THEN [raised |-> BadUnpack, username |-> name]
             ELSE LET gotten_name == parts[1]
                      gotten_idp == parts[2]
                  IN  IF gotten_idp \notin Range(whitelist)
                      THEN [raised |-> NotWhitelisted, username |-> name]
                      ELSE [raised |-> NoExc,
                            username |-> IF ShouldStrip(whitelist, strip)
                                         THEN gotten_name ELSE name]

\* auth_state filled from the wrong locals
UserdictMixedUp(name, token, access, json) ==
    [name |-> name,
     auth_state |-> [token_response |-> token,
                     access_token |-> access,
                     cilogon_user |-> token]]

\* the dictionary authenticate returns
Userdict(name, token, access, json) ==
    [name |-> name,
     auth_state |-> [token_response |-> token,
                     access_token |-> access,
                     cilogon_user |-> json]]

(***************************************************************************)
(* authenticate, one step per stretch between two yields.                  *)
(***************************************************************************)
\* the request sent without its parameter (the code, the access token)
RequestWithoutParam(method, path, param) == [method |-> method, path |-> path, param |-> ""]

Request(method, path, param) == [method |-> method, path |-> path, param |-> param]

\* the exception caught and logged, the attempt left where it was
RaiseSwallowed(a, e) ==
    /\ pc' = pc
    /\ raised' = [raised EXCEPT ![a] = e]

\* the attempt ends with exception e; nothing else of the frame changes
Raise(a, e) ==
    /\ pc' = [pc EXCEPT ![a] = "raised"]
    /\ raised' = [raised EXCEPT ![a] = e]

\* lines 132-159: read ?code=, send the token request, wait for the answer
authenticate(a, c) ==
    /\ pc[a] = "start"
    /\ IF c = "missing"
       THEN /\ Raise(a, Exc("web.MissingArgumentError", 400, "Missing argument code"))
            /\ UNCHANGED <<code, requests>>
       ELSE /\ code' = [code EXCEPT ![a] = c]
            /\ requests' = [requests EXCEPT
                               ![a] = Append(@, Request("POST", "/oauth2/token", c))]
            /\ pc' = [pc EXCEPT ![a] = "token_fetch"]
            /\ UNCHANGED raised
    /\ UNCHANGED <<config_vars, token_response, access_token, resp_json, username,
                   userdict, responses, claimed, map_vars>>

\* the access token kept in an attribute of the authenticator, which every
\* attempt reads and writes
token_fetched_shared(a, r) ==
    /\ pc[a] = "token_fetch"
    /\ responses' = [responses EXCEPT ![a] = Append(@, r)]
    /\ IF r.status # 200
       THEN /\ Raise(a, Exc("httpclient.HTTPError", r.status, ""))
            /\ UNCHANGED <<token_response, access_token, requests>>
       ELSE IF ~r.valid_json
       THEN /\ Raise(a, Exc("json.JSONDecodeError", 0, ""))
            /\ UNCHANGED <<token_response, access_token, requests>>
       ELSE IF "access_token" \notin DOMAIN r.json
       THEN /\ token_response' = [token_response EXCEPT ![a] = r.json]
            /\ Raise(a, Exc("KeyError", 0, "access_token"))
            /\ UNCHANGED <<access_token, requests>>
       ELSE /\ token_response' = [token_response EXCEPT ![a] = r.json]
            /\ access_token' = [b \in Attempts |-> r.json.access_token]
            /\ requests' = [requests EXCEPT
                               ![a] = Append(@, Request("GET", "/oauth2/userinfo",
                                                        r.json.access_token))]
            /\ pc' = [pc EXCEPT ![a] = "userinfo_fetch"]
            /\ UNCHANGED raised
    /\ UNCHANGED <<config_vars, code, resp_json, username, userdict, claimed, map_vars>>

\* lines 159-169: the token answer arrives; parse it, take the access token,
\* send the userinfo request, wait for the answer
token_fetched(a, r) ==
    /\ pc[a] = "token_fetch"
    /\ responses' = [responses EXCEPT ![a] = Append(@, r)]
    /\ IF r.status # 200
       THEN /\ Raise(a, Exc("httpclient.HTTPError", r.status, ""))
            /\ UNCHANGED <<token_response, access_token, requests>>
       ELSE IF ~r.valid_json
       THEN /\ Raise(a, Exc("json.JSONDecodeError", 0, ""))
            /\ UNCHANGED <<token_response, access_token, requests>>
       ELSE IF "access_token" \notin DOMAIN r.json
       THEN /\ token_response' = [token_response EXCEPT ![a] = r.json]
            /\ Raise(a, Exc("KeyError", 0, "access_token"))
            /\ UNCHANGED <<access_token, requests>>
       ELSE /\ token_response' = [token_response EXCEPT ![a] = r.json]
            /\ access_token' = [access_token EXCEPT ![a] = r.json.access_token]
            /\ requests' = [requests EXCEPT
                               ![a] = Append(@, Request("GET", "/oauth2/userinfo",
                                                        r.json.access_token))]
            /\ pc' = [pc EXCEPT ![a] = "userinfo_fetch"]
            /\ UNCHANGED raised
    /\ UNCHANGED <<config_vars, code, resp_json, username, userdict, claimed, map_vars>>

\* lines 169-210: the userinfo answer arrives; parse it, find the username,
\* apply the whitelist, return the user dictionary
userinfo_fetched(a, r) ==
    /\ pc[a] = "userinfo_fetch"
    /\ responses' = [responses EXCEPT ![a] = Append(@, r)]
    /\ IF r.status # 200
       THEN /\ Raise(a, Exc("httpclient.HTTPError", r.status, ""))
            /\ UNCHANGED <<resp_json, username, claimed, userdict>>
       ELSE IF ~r.valid_json
       THEN /\ Raise(a, Exc("json.JSONDecodeError", 0, ""))
            /\ UNCHANGED <<resp_json, username, claimed, userdict>>
       ELSE LET found == ClaimLoop(r.json, claimlist, 1)
                kept == Whitelist(found, idp_whitelist, strip_idp_domain)
            IN  /\ resp_json' = [resp_json EXCEPT ![a] = r.json]
                /\ claimed' = [claimed EXCEPT ![a] = found]
                /\ IF ~Truthy(found)
                   THEN /\ username' = [username EXCEPT ![a] = found]
                        /\ Raise(a, UsernameNotFound)
                        /\ UNCHANGED userdict
                   ELSE IF kept.raised # NoExc
                   THEN /\ username' = [username EXCEPT ![a] = kept.username]
                        /\ Raise(a, kept.raised)
                        /\ UNCHANGED userdict
                   ELSE /\ username' = [username EXCEPT ![a] = kept.username]
                        /\ userdict' = [userdict EXCEPT
                              ![a] = Userdict(kept.username, token_response[a],
                                              access_token[a], r.json)]
                        /\ pc' = [pc EXCEPT ![a] = "returned"]
                        /\ UNCHANGED raised
    /\ UNCHANGED <<config_vars, code, token_response, access_token, requests, map_vars>>

\* the coroutine is over and its frame is gone; the next login starts afresh
NewFrame ==
    [pc |-> "start", code |-> "", token_response |-> NoJson, access_token |-> "",
     resp_json |-> NoJson, username |-> None, userdict |-> NoJson, raised |-> NoExc,
     requests |-> <<>>, responses |-> <<>>, claimed |-> None]

frame_done(a) ==
    /\ pc[a] \in {"returned", "raised"}
    /\ pc' = [pc EXCEPT ![a] = NewFrame.pc]
    /\ code' = [code EXCEPT ![a] = NewFrame.code]
    /\ token_response' = [token_response EXCEPT ![a] = NewFrame.token_response]
    /\ access_token' = [access_token EXCEPT ![a] = NewFrame.access_token]
    /\ resp_json' = [resp_json EXCEPT ![a] = NewFrame.resp_json]
    /\ username' = [username EXCEPT ![a] = NewFrame.username]
    /\ userdict' = [userdict EXCEPT ![a] = NewFrame.userdict]
    /\ raised' = [raised EXCEPT ![a] = NewFrame.raised]
    /\ requests' = [requests EXCEPT ![a] = NewFrame.requests]
    /\ responses' = [responses EXCEPT ![a] = NewFrame.responses]
    /\ claimed' = [claimed EXCEPT ![a] = NewFrame.claimed]
    /\ UNCHANGED <<config_vars, map_vars>>

(***************************************************************************)
(* LocalCILogonMapOAuthenticator: the map file and Python's view of it.    *)
(***************************************************************************)
\* the characters of a username given to normalize_username
NameAlphabet == {"A", "@"}

Usernames == SeqsUpTo(NameAlphabet, MaxUserLen)

\* the whitespace-separated words of a map file line
FileTokens == {<<"A">>, <<"b">>}

\* a line, as line.split() gives it: no word (a blank line), one word, two
FileLines == SeqsUpTo(FileTokens, 2)

FileContents == SeqsUpTo(FileLines, MaxLines)

Mtimes == 1..MaxMtime

\* no file at the path
NoFile == [exists |-> FALSE, st_mtime |-> 0, lines |-> <<>>]

File(mtime, lines) == [exists |-> TRUE, st_mtime |-> mtime, lines |-> lines]

\* the default of the name_regex trait
name_regex == "@.*$"

\* str.lower()
LowerChar(c) == IF c = "A" THEN "a" ELSE c

Lower(s) == [i \in 1..Len(s) |-> LowerChar(s[i])]

\* re.sub('@.*$', '', s) scanning from position i: the leftmost '@' starts the
\* match, '.*' takes the rest of the string, '$' holds at its end
RECURSIVE SubFrom(_, _)
SubFrom(s, i) ==
    IF i > Len(s) THEN s
    ELSE IF s[i] = "@" THEN SubSeq(s, 1, i - 1)
    ELSE SubFrom(s, i + 1)

ReSub(pattern, s) == IF pattern = "@.*$" THEN SubFrom(s, 1) ELSE s

\* d[key] = value
DictSet(d, key, value) ==
    [k \in DOMAIN d \cup {key} |-> IF k = key THEN value ELSE d[k]]

\* d.get(key, default)
DictGet(d, key, default) == IF key \in DOMAIN d THEN d[key] ELSE default

EmptyDict == <<>>

\* the comparison with 0 in the place of prev_map_mtime
ModifiedSinceZero(mtime, prev) == mtime > 0

\* no comparison: every call reads the file
ModifiedAlways(mtime, prev) == TRUE

\* the comparison with `>=`
ModifiedOrSame(mtime, prev) == mtime >= prev

\* the comparison with its operands swapped
ModifiedSwapped(mtime, prev) == prev > mtime

\* `mtime > self.prev_map_mtime`
Modified(mtime, prev) == mtime > prev

\* the loop over the file's lines from line i on: the dictionary it leaves and
\* whether it came to the end (names[1] of a line of fewer than two words is
\* an IndexError, which ends the loop there)
RECURSIVE ReadLines(_, _, _)
ReadLines(d, lines, i) ==
    IF i > Len(lines) THEN [map |-> d, ok |-> TRUE]
    ELSE LET names == lines[i]
         IN  IF Len(names) < 2 THEN [map |-> d, ok |-> FALSE]
             ELSE ReadLines(DictSet(d, Lower(names[1]), Lower(names[2])), lines, i + 1)

\* name_regex taken out whatever full_names says
ShortenAlways(name, full) == ReSub(name_regex, Lower(name))

\* lines 269-272: the name that is looked up
Shorten(name, full) ==
    IF ~full THEN ReSub(name_regex, Lower(name)) ELSE Lower(name)

\* lines 269-274
Lookup(d, name, full) ==
    LET short == Shorten(name, full) IN DictGet(d, short, short)

\* what a call did: the name it was given, the st_mtime it saw (0: os.stat
\* raised), whether open() gave it the file, whether it read lines it had
\* read before, the exception it raised ("": none) and the name it returned
Call(name, mtime, opened, reread, exc, result) ==
    [username |-> name, st_mtime |-> mtime, opened |-> opened, reread |-> reread,
     exc |-> exc, result |-> result]

NoCall == Call(None, 0, FALSE, FALSE, "", None)

(***************************************************************************)
(* normalize_username, lines 250-274: one call.                            *)
(***************************************************************************)
normalize_username(name, can_open) ==
    /\ call = NoCall
    /\ IF ~mapfile.exists
       THEN /\ call' = Call(name, 0, FALSE, FALSE, "FileNotFoundError", None)
            /\ UNCHANGED <<prev_map_mtime, username_map, edited>>
       ELSE LET mtime == mapfile.st_mtime
            IN  IF Modified(mtime, prev_map_mtime)
                THEN /\ prev_map_mtime' = mtime
                     /\ IF ~can_open
                        THEN /\ call' = Call(name, mtime, FALSE, FALSE, "OSError", None)
                             /\ UNCHANGED <<username_map, edited>>
                        ELSE LET read == ReadLines(username_map, mapfile.lines, 1)
                             IN  /\ username_map' = read.map
                                 /\ edited' = FALSE
                                 /\ call' =
                                      IF read.ok
                                      THEN Call(name, mtime, TRUE, ~edited, "",
                                                Lookup(read.map, name, full_names))
                                      ELSE Call(name, mtime, TRUE, ~edited,
                                                "IndexError", None)
                ELSE /\ call' = Call(name, mtime, FALSE, FALSE, "",
                                     Lookup(username_map, name, full_names))
                     /\ UNCHANGED <<prev_map_mtime, username_map, edited>>
    /\ UNCHANGED <<mapfile, full_names, thread, auth_vars>>

\* line 274: the call is over and its caller has what it gave
call_over ==
    /\ call # NoCall
    /\ call' = NoCall
    /\ UNCHANGED <<mapfile, full_names, prev_map_mtime, username_map, edited,
                   thread, auth_vars>>

(***************************************************************************)
(* The administrator of the map file, between two calls.                   *)
(***************************************************************************)
\* a line is added at the end of the file (the first one creates the file)
append_line(line, mtime) ==
    /\ call = NoCall
    /\ Len(mapfile.lines) < MaxLines
    /\ mapfile' = File(mtime, Append(mapfile.lines, line))
    /\ edited' = TRUE
    /\ UNCHANGED <<full_names, prev_map_mtime, username_map, call, thread, auth_vars>>

\* line i is taken out of the file
delete_line(i, mtime) ==
    /\ call = NoCall
    /\ mapfile.exists
    /\ i \in 1..Len(mapfile.lines)
    /\ mapfile' = File(mtime, SubSeq(mapfile.lines, 1, i - 1)
                                \o SubSeq(mapfile.lines, i + 1, Len(mapfile.lines)))
    /\ edited' = TRUE
    /\ UNCHANGED <<full_names, prev_map_mtime, username_map, call, thread, auth_vars>>

\* touch: the modification time changes (forwards, or backwards as with
\* touch -d), the lines do not; a missing file is created empty
touch_file(mtime) ==
    /\ call = NoCall
    /\ mtime # mapfile.st_mtime
    /\ mapfile' = File(mtime, mapfile.lines)
    /\ UNCHANGED <<full_names, prev_map_mtime, username_map, call, edited, thread,
                   auth_vars>>

remove_file ==
    /\ call = NoCall
    /\ mapfile.exists
    /\ mapfile' = NoFile
    /\ edited' = TRUE
    /\ UNCHANGED <<full_names, prev_map_mtime, username_map, call, thread, auth_vars>>

(***************************************************************************)
(* normalize_username, lines 250-274, statement by statement: calls that   *)
(* overlap.  The method takes no lock and username_map and prev_map_mtime  *)
(* are attributes all callers share, so between any two accesses of them   *)
(* another caller's statement may run.  The file is not modified while a   *)
(* call is under way.                                                      *)
(***************************************************************************)
\* the callers whose calls may overlap
Threads == {1, 2}

\* the frame of one call: where it is, the locals mtime and the line the
\* loop is at, username and what was returned for it, the exception raised,
\* and the username_map the loop found when the file was opened
ThreadFrame(at, mtime, line, old, name, result, exc) ==
    [pc |-> at, mtime |-> mtime, line |-> line, old |-> old,
     username |-> name, result |-> result, exc |-> exc]

NoThread == ThreadFrame("idle", 0, 0, EmptyDict, None, None, "")

AllIdle == \A t \in Threads : thread[t] = NoThread

\* line 260: mtime = os.stat(self.mapfile).st_mtime
os_stat(t) ==
    /\ thread[t].pc = "idle"
    /\ thread' = [thread EXCEPT
          ![t] = IF mapfile.exists
                 THEN [@ EXCEPT !.pc = "compare", !.mtime = mapfile.st_mtime]
                 ELSE [@ EXCEPT !.pc = "raised", !.exc = "FileNotFoundError"]]
    /\ UNCHANGED <<full_names, prev_map_mtime, username_map, mapfile, call, edited,
                   auth_vars>>

\* line 262: if mtime > self.prev_map_mtime
compare_mtime(t) ==
    /\ thread[t].pc = "compare"
    /\ thread' = [thread EXCEPT
          ![t].pc = IF Modified(thread[t].mtime, prev_map_mtime)
                    THEN "set_mtime" ELSE "lookup"]
    /\ UNCHANGED <<full_names, prev_map_mtime, username_map, mapfile, call, edited,
                   auth_vars>>

\* line 263: self.prev_map_mtime = mtime
set_prev_map_mtime(t) ==
    /\ thread[t].pc = "set_mtime"
    /\ prev_map_mtime' = thread[t].mtime
    /\ thread' = [thread EXCEPT ![t].pc = "open"]
    /\ UNCHANGED <<full_names, username_map, mapfile, call, edited, auth_vars>>

\* line 264: with open(self.mapfile, 'r') as m
open_mapfile(t, can_open) ==
    /\ thread[t].pc = "open"
    /\ thread' = [thread EXCEPT
          ![t] = IF can_open
                 THEN [@ EXCEPT !.pc = "read", !.line = 1, !.old = username_map]
                 ELSE [@ EXCEPT !.pc = "raised", !.exc = "OSError"]]
    /\ edited' = IF can_open THEN FALSE ELSE edited
    /\ UNCHANGED <<full_names, prev_map_mtime, username_map, mapfile, call, auth_vars>>

\* lines 265-267: one turn of the loop, or its end
read_line(t) ==
    /\ thread[t].pc = "read"
    /\ LET i == thread[t].line
       IN  IF i > Len(mapfile.lines)
           THEN /\ thread' = [thread EXCEPT ![t].pc = "lookup"]
                /\ UNCHANGED username_map
           ELSE LET names == mapfile.lines[i]
                IN  IF Len(names) < 2
                    THEN /\ thread' = [thread EXCEPT ![t].pc = "raised",
                                                     ![t].exc = "IndexError"]
                         /\ UNCHANGED username_map
                    ELSE /\ username_map' =
                              DictSet(username_map, Lower(names[1]), Lower(names[2]))
                         /\ thread' = [thread EXCEPT ![t].line = i + 1]
    /\ UNCHANGED <<full_names, prev_map_mtime, mapfile, call, edited, auth_vars>>

\* lines 269-274: the name is shortened, looked up and returned
map_lookup(t, name) ==
    /\ thread[t].pc = "lookup"
    /\ thread' = [thread EXCEPT
          ![t].pc = "returned",
          ![t].username = name,
          ![t].result = Lookup(username_map, name, full_names)]
    /\ UNCHANGED <<full_names, prev_map_mtime, username_map, mapfile, call, edited,
                   auth_vars>>

\* the call is over
thread_done(t) ==
    /\ thread[t].pc \in {"returned", "raised"}
    /\ thread' = [thread EXCEPT ![t] = NoThread]
    /\ UNCHANGED <<full_names, prev_map_mtime, username_map, mapfile, call, edited,
                   auth_vars>>

(***************************************************************************)
(* The hub with one login at a time.                                       *)
(***************************************************************************)
InitConfig ==
    /\ username_claim \in ClaimNames
    /\ additional_username_claims \in SeqsUpTo(ClaimNames, MaxAdditional)
    /\ idp_whitelist \in SeqsUpTo(Idps, MaxWhitelist)
    /\ strip_idp_domain \in BOOLEAN

InitFrames ==
    /\ pc = [a \in Attempts |-> NewFrame.pc]
    /\ code = [a \in Attempts |-> NewFrame.code]
    /\ token_response = [a \in Attempts |-> NewFrame.token_response]
    /\ access_token = [a \in Attempts |-> NewFrame.access_token]
    /\ resp_json = [a \in Attempts |-> NewFrame.resp_json]
    /\ username = [a \in Attempts |-> NewFrame.username]
    /\ userdict = [a \in Attempts |-> NewFrame.userdict]
    /\ raised = [a \in Attempts |-> NewFrame.raised]
    /\ requests = [a \in Attempts |-> NewFrame.requests]
    /\ responses = [a \in Attempts |-> NewFrame.responses]
    /\ claimed = [a \in Attempts |-> NewFrame.claimed]

\* the class attributes of LocalCILogonMapOAuthenticator, lines 247-248, and
\* the full_names trait
InitMapper(full) ==
    /\ full_names = full
    /\ prev_map_mtime = 0
    /\ username_map = EmptyDict
    /\ call = NoCall
    /\ edited = TRUE
    /\ thread = [t \in Threads |-> NoThread]

InitAuth == InitConfig /\ InitFrames /\ InitMapper(FALSE) /\ mapfile = NoFile

\* no other login is under way
Alone(a) == \A b \in Attempts \ {a} : pc[b] = "start"

\* a new login takes the first free frame
FirstFree(a) == pc[a] = "start" /\ \A b \in Attempts : b < a => pc[b] # "start"

NextAuth ==
    \/ \E a \in Attempts :
          Alone(a) /\ FirstFree(a) /\ \E c \in Codes(a) : authenticate(a, c)
    \/ \E a \in Attempts :
          Alone(a) /\ pc[a] = "token_fetch"
              /\ \E r \in TokenOutcomes : token_fetched(a, r)
    \/ \E a \in Attempts :
          Alone(a) /\ pc[a] = "userinfo_fetch"
              /\ \E r \in UserInfoOutcomes : userinfo_fetched(a, r)
    \/ \E a \in Attempts : Alone(a) /\ frame_done(a)

SpecAuth == InitAuth /\ [][NextAuth]_vars

(***************************************************************************)
(* Properties of authenticate, checked under SpecAuth.                     *)
(***************************************************************************)
\* a claim of the response that is there and not empty
HasValue(json, claim) == Get(json, claim) \notin {None, <<>>}

\* the attempt got as far as a parsed userinfo response
Parsed(a) == resp_json[a] # NoJson

\* the attempt found a username in the response
Resolved(a) == Parsed(a) /\ claimed[a] \notin {None, <<>>}

AtSigns(s) == {i \in 1..Len(s) : s[i] = "@"}

\* a string of the shape localpart@idp
OneAt(s) == s # NonString /\ Cardinality(AtSigns(s)) = 1

Localpart(s) == SubSeq(s, 1, (CHOOSE i \in AtSigns(s) : TRUE) - 1)

IdpSuffix(s) == SubSeq(s, (CHOOSE i \in AtSigns(s) : TRUE) + 1, Len(s))

\* C1: the claim list is username_claim followed by the additional claims in
\* their order, so it is never empty; whenever the userinfo response has a
\* value for some listed claim, the username the claim loop leaves is the value
\* of the first listed claim that has one, never that of a later claim.
C1_FirstListedClaimWins ==
    /\ Len(claimlist) >= 1
    /\ claimlist[1] = username_claim
    /\ SubSeq(claimlist, 2, Len(claimlist)) = additional_username_claims
    /\ \A a \in Attempts :
         Parsed(a) =>
           \A i \in 1..Len(claimlist) :
              (/\ HasValue(resp_json[a], claimlist[i])
               /\ \A j \in 1..(i - 1) : ~HasValue(resp_json[a], claimlist[j]))
                  => claimed[a] = resp_json[a][claimlist[i]]

\* a login returned although a later listed claim had another value
C1_Witness ==
    \E a \in Attempts :
       /\ pc[a] = "returned"
       /\ Len(claimlist) = 2
       /\ HasValue(resp_json[a], claimlist[1])
       /\ HasValue(resp_json[a], claimlist[2])
       /\ resp_json[a][claimlist[1]] # resp_json[a][claimlist[2]]
       /\ userdict[a].name = resp_json[a][claimlist[1]]

\* C2: whenever every listed claim of the userinfo response is absent or
\* empty, authenticate raises HTTPError(500, "Failed to get username from
\* CILogon") and returns nothing; no username is made up.
C2_NoClaimNoLogin ==
    \A a \in Attempts :
       (Parsed(a) /\ \A i \in 1..Len(claimlist) : ~HasValue(resp_json[a], claimlist[i]))
          => /\ pc[a] = "raised"
             /\ raised[a] = Exc("web.HTTPError", 500, "Failed to get username from CILogon")
             /\ userdict[a] = NoJson

\* a login failed on a response whose two listed claims are there and empty
C2_Witness ==
    \E a \in Attempts :
       /\ pc[a] = "raised"
       /\ raised[a].log_message = "Failed to get username from CILogon"
       /\ Len(claimlist) = 2
       /\ claimlist[1] # claimlist[2]
       /\ DOMAIN resp_json[a] = ClaimNames
       /\ \A c \in ClaimNames : resp_json[a][c] = <<>>

\* C3: with a non-empty idp_whitelist, a login whose username is
\* localpart@idp with idp not in the whitelist raises HTTPError(500, "Trying
\* to login from not whitelisted domain") and returns nothing; so every login
\* that returned under a non-empty whitelist has its idp in the whitelist.
\* That error is raised only after both fetches were answered and parsed: it
\* is neither the fetch's error nor the JSON parser's.
C3_ForeignIdpRejected ==
    \A a \in Attempts :
       /\ (Resolved(a) /\ idp_whitelist # <<>> /\ OneAt(claimed[a])
             /\ IdpSuffix(claimed[a]) \notin Range(idp_whitelist))
            => /\ pc[a] = "raised"
               /\ raised[a] = Exc("web.HTTPError", 500,
                                  "Trying to login from not whitelisted domain")
               /\ userdict[a] = NoJson
       /\ (pc[a] = "returned" /\ idp_whitelist # <<>>)
            => OneAt(claimed[a]) /\ IdpSuffix(claimed[a]) \in Range(idp_whitelist)
       /\ raised[a].log_message = "Trying to login from not whitelisted domain"
            => /\ Len(responses[a]) = 2
               /\ \A i \in 1..2 : responses[a][i].status = 200 /\ responses[a][i].valid_json
               /\ raised[a].exc \notin {"httpclient.HTTPError", "json.JSONDecodeError"}

\* a login from an idp that is not in the whitelist was rejected
C3_Witness ==
    \E a \in Attempts :
       /\ pc[a] = "raised"
       /\ raised[a].log_message = "Trying to login from not whitelisted domain"
       /\ idp_whitelist = <<(<<"a">>)>>
       /\ claimed[a] = <<"@", "a", "a">>

\* C4: a login whose username localpart@idp passed the whitelist returns
\* localpart exactly when idp_whitelist has one entry and strip_idp_domain is
\* set; with two or more entries, or with the flag unset, it returns the
\* username unchanged.
C4_StripOnlySingleIdp ==
    \A a \in Attempts :
       (pc[a] = "returned" /\ idp_whitelist # <<>>)
          => /\ (Len(idp_whitelist) = 1 /\ strip_idp_domain)
                   => userdict[a].name = Localpart(claimed[a])
             /\ ~(Len(idp_whitelist) = 1 /\ strip_idp_domain)
                   => userdict[a].name = claimed[a]
             /\ userdict[a].name = Localpart(claimed[a])
                   <=> (Len(idp_whitelist) = 1 /\ strip_idp_domain)

\* a login passed a whitelist of two idps with the strip flag set
C4_Witness ==
    \E a \in Attempts :
       /\ pc[a] = "returned"
       /\ Len(idp_whitelist) = 2
       /\ idp_whitelist[1] # idp_whitelist[2]
       /\ strip_idp_domain
       /\ userdict[a].name = <<"a", "@", "a">>

\* C5: with an empty idp_whitelist every username the claims gave (no '@',
\* one, several; a string or not; whatever strip_idp_domain) is returned as
\* the name, unchanged, and neither the whitelist error nor the errors of
\* splitting the username are raised.
C5_EmptyWhitelistNoFilter ==
    \A a \in Attempts :
       idp_whitelist = <<>>
          => /\ Resolved(a)
                   => /\ pc[a] = "returned"
                      /\ raised[a] = NoExc
                      /\ userdict[a].name = claimed[a]
             /\ raised[a].log_message # "Trying to login from not whitelisted domain"
             /\ raised[a].exc \notin {"ValueError", "AttributeError"}

\* a login with two '@' in its username returned it, with the strip flag set
C5_Witness ==
    \E a \in Attempts :
       /\ pc[a] = "returned"
       /\ idp_whitelist = <<>>
       /\ strip_idp_domain
       /\ userdict[a].name = <<"@", "@", "a">>

\* C6: with a non-empty idp_whitelist, a login whose username has no '@' or
\* more than one raises the ValueError of the two-name unpacking (and one
\* whose username is no string the AttributeError of .split) and returns
\* nothing, also when one of the parts between the '@' is in the whitelist.
C6_MalformedUsernameFails ==
    \A a \in Attempts :
       (Resolved(a) /\ idp_whitelist # <<>> /\ ~OneAt(claimed[a]))
          => /\ pc[a] = "raised"
             /\ userdict[a] = NoJson
             /\ raised[a].exc = IF claimed[a] = NonString
                                THEN "AttributeError" ELSE "ValueError"

\* a login whose username ends in @a failed although a is whitelisted
C6_Witness ==
    \E a \in Attempts :
       /\ pc[a] = "raised"
       /\ raised[a].exc = "ValueError"
       /\ claimed[a] = <<"@", "@", "a">>
       /\ <<"a">> \in Range(idp_whitelist)

\* C7: a login that returned gave a dictionary with the keys name and
\* auth_state and no other, where auth_state holds token_response (the parsed
\* token response of this attempt), access_token (its access_token entry) and
\* cilogon_user (the parsed userinfo response of this attempt), each as the
\* broker sent it.
C7_ResultShape ==
    \A a \in Attempts :
       pc[a] = "returned"
          => /\ DOMAIN userdict[a] = {"name", "auth_state"}
             /\ DOMAIN userdict[a].auth_state
                   = {"token_response", "access_token", "cilogon_user"}
             /\ Len(responses[a]) = 2
             /\ userdict[a].auth_state.token_response = responses[a][1].json
             /\ userdict[a].auth_state.access_token = responses[a][1].json.access_token
             /\ userdict[a].auth_state.cilogon_user = responses[a][2].json
             /\ requests[a][2].param = userdict[a].auth_state.access_token

\* a login returned with the second token and a userinfo response of two claims
C7_Witness ==
    \E a \in Attempts :
       /\ pc[a] = "returned"
       /\ userdict[a].auth_state.access_token = "t2"
       /\ DOMAIN userdict[a].auth_state.cilogon_user = ClaimNames
       /\ userdict[a].name = <<"a">>

(***************************************************************************)
(* The hub normalizing usernames while the map file changes.               *)
(***************************************************************************)
\* the defaults of the CILogonOAuthenticator traits
DefaultConfig ==
    /\ username_claim = "eppn"
    /\ additional_username_claims = <<>>
    /\ idp_whitelist = <<>>
    /\ strip_idp_domain = FALSE

InitMap ==
    /\ DefaultConfig
    /\ InitFrames
    /\ \E full \in BOOLEAN : InitMapper(full)
    /\ mapfile = NoFile

NextMap ==
    \/ \E name \in Usernames, can_open \in BOOLEAN : normalize_username(name, can_open)
    \/ call_over
    \/ \E line \in FileLines, mtime \in Mtimes : append_line(line, mtime)
    \/ \E i \in 1..MaxLines, mtime \in Mtimes : delete_line(i, mtime)
    \/ \E mtime \in Mtimes : touch_file(mtime)
    \/ remove_file

SpecMap == InitMap /\ [][NextMap]_vars

(***************************************************************************)
(* Properties of normalize_username, checked under SpecMap.                *)
(***************************************************************************)
\* this step is one call of normalize_username
Called == call = NoCall /\ call' # NoCall

\* the name with every "A" turned into "a"
Lowered(name) == [i \in 1..Len(name) |-> IF name[i] = "A" THEN "a" ELSE name[i]]

\* the name up to its first '@', the whole name when it has none
BeforeAt(name) ==
    IF AtSigns(name) = {} THEN name
    ELSE SubSeq(name, 1, (CHOOSE i \in AtSigns(name) : \A j \in AtSigns(name) : i <= j) - 1)

\* the name a call looks up
LookedUp(name) == IF full_names THEN Lowered(name) ELSE BeforeAt(Lowered(name))

\* line i of the lines is one the loop can take in
WellFormed(lines, i) == Len(lines[i]) >= 2

\* C8: a call goes into the rebuild only when the st_mtime it saw is
\* strictly greater than prev_map_mtime; when it is equal or older, the call
\* does not open the file, leaves username_map and prev_map_mtime as they
\* were, and answers from that username_map.
C8_RebuildOnlyWhenNewer ==
    [][Called =>
         /\ (call'.opened \/ username_map' # username_map
                \/ prev_map_mtime' # prev_map_mtime)
               => mapfile.exists /\ mapfile.st_mtime > prev_map_mtime
         /\ (mapfile.exists /\ mapfile.st_mtime <= prev_map_mtime)
               => /\ ~call'.opened
                  /\ username_map' = username_map
                  /\ prev_map_mtime' = prev_map_mtime
                  /\ call'.exc = ""
                  /\ call'.result =
                        IF LookedUp(call'.username) \in DOMAIN username_map
                        THEN username_map[LookedUp(call'.username)]
                        ELSE LookedUp(call'.username)]_vars

\* a call left the table alone although the file, not newer than the last
\* load, has a line for a name the table does not know
C8_Witness ==
    /\ call # NoCall
    /\ call.exc = ""
    /\ ~call.opened
    /\ mapfile.exists
    /\ mapfile.st_mtime <= prev_map_mtime
    /\ username_map # EmptyDict
    /\ \E i \in 1..Len(mapfile.lines) :
          /\ WellFormed(mapfile.lines, i)
          /\ Lowered(mapfile.lines[i][1]) \notin DOMAIN username_map

\* C9: a call that returns gives the name found as follows: the username in
\* lower case; with full_names false cut at its first '@' (name_regex
\* removed), with full_names true left whole; then the table's value for that
\* name when the table has it, and that name itself when it has not.  A name
\* the table does not have makes no call fail: a call fails only when the
\* file is missing, cannot be opened or has a line of fewer than two words.
C9_LookupOfNormalizedName ==
    call # NoCall =>
       /\ call.exc = ""
            => call.result =
                  IF LookedUp(call.username) \in DOMAIN username_map
                  THEN username_map[LookedUp(call.username)]
                  ELSE LookedUp(call.username)
       /\ call.exc # ""
            => \/ call.exc = "FileNotFoundError" /\ ~mapfile.exists
               \/ call.exc = "OSError" /\ ~call.opened
               \/ /\ call.exc = "IndexError"
                  /\ \E i \in 1..Len(mapfile.lines) : ~WellFormed(mapfile.lines, i)

\* with full_names false, A@ was looked up as a and mapped to b
C9_Witness ==
    /\ call # NoCall
    /\ call.exc = ""
    /\ ~full_names
    /\ call.username = <<"A", "@">>
    /\ call.result = <<"b">>

\* C10: a call that finds the file's st_mtime greater than prev_map_mtime
\* takes the new st_mtime and reads the file again (unless open() fails),
\* whether or not its lines changed: after it the table has every line up to
\* the file's first short line.
C10_NewerMtimeReloads ==
    [][(Called /\ mapfile.exists /\ mapfile.st_mtime > prev_map_mtime) =>
         /\ prev_map_mtime' = mapfile.st_mtime
         /\ call'.opened \/ call'.exc = "OSError"
         /\ call'.opened =>
              \A i \in 1..Len(mapfile.lines) :
                 (\A j \in 1..i : WellFormed(mapfile.lines, j))
                    => Lowered(mapfile.lines[i][1]) \in DOMAIN username_map']_vars

\* a call read again, at a later st_mtime, the lines the hub had read before
C10_Witness ==
    /\ call # NoCall
    /\ call.opened
    /\ call.reread
    /\ call.exc = ""
    /\ call.st_mtime > 1
    /\ Len(mapfile.lines) = MaxLines

\* C11: a call that fails (os.stat raises, open() raises, a line has fewer
\* than two words) leaves username_map and prev_map_mtime as they were before
\* the call.
C11_FailedCallLeavesCache ==
    [][(Called /\ call'.exc # "") =>
         /\ username_map' = username_map
         /\ prev_map_mtime' = prev_map_mtime]_vars

\* the mapping the lines define: lower(external) -> lower(local) of the last
\* line that has the key
FileMap(lines) ==
    LET keys == {Lowered(lines[i][1]) : i \in 1..Len(lines)}
        last(k) == CHOOSE i \in 1..Len(lines) :
                      /\ Lowered(lines[i][1]) = k
                      /\ \A j \in (i + 1)..Len(lines) : Lowered(lines[j][1]) # k
    IN  [k \in keys |-> Lowered(lines[last(k)][2])]

\* C12: after a call that read the file to its end, username_map is exactly
\* the mapping the file's lines define (a key of no line is not in it) and
\* prev_map_mtime is the st_mtime that call saw.
C12_TableIsTheFile ==
    (call # NoCall /\ call.opened /\ call.exc = "")
       => /\ username_map = FileMap(mapfile.lines)
          /\ prev_map_mtime = call.st_mtime

(***************************************************************************)
(* The hub with logins under way at the same time.  A coroutine that       *)
(* waits at a `yield` has given control back to the IOLoop, which resumes  *)
(* whichever coroutine's fetch is answered first.                          *)
(***************************************************************************)
\* the userinfo bodies the broker sends while logins overlap
HubUserInfos ==
    {[eppn |-> <<"a", "@", "a">>],
     [eppn |-> <<"a">>, email |-> <<"a", "@", "a">>],
     [email |-> <<"a">>]}

HubUserInfoOutcomes == Outcomes(HubUserInfos)

\* the attempts whose broker may never answer
Unanswered == {1}

InitHub == InitConfig /\ InitFrames /\ InitMapper(FALSE) /\ mapfile = NoFile

\* the IOLoop resumes attempt a with the answer to the fetch it waits for
token_answered(a) ==
    pc[a] = "token_fetch" /\ \E r \in TokenOutcomes : token_fetched(a, r)

userinfo_answered(a) ==
    pc[a] = "userinfo_fetch" /\ \E r \in HubUserInfoOutcomes : userinfo_fetched(a, r)

NextHub ==
    \/ \E a \in Attempts : \E c \in Codes(a) : authenticate(a, c)
    \/ \E a \in Attempts : token_answered(a)
    \/ \E a \in Attempts : userinfo_answered(a)
    \/ \E a \in Attempts : frame_done(a)

\* an answer that has arrived is handed to its coroutine; the answers to the
\* attempts in Unanswered may never arrive
SpecHub ==
    /\ InitHub
    /\ [][NextHub]_vars
    /\ \A a \in Attempts \ Unanswered :
          WF_vars(token_answered(a)) /\ WF_vars(userinfo_answered(a))

(***************************************************************************)
(* Properties of overlapping logins, checked under SpecHub.                *)
(*                                                                         *)
(* The states of a login attempt are read off its frame:                   *)
(*   START              pc "start"                                         *)
(*   CODE_RECEIVED      pc "token_fetch" (the token request is out)        *)
(*   TOKEN_ACQUIRED     pc "userinfo_fetch" (the userinfo request is out)  *)
(*   IDENTITY_FETCHED   resp_json holds the parsed userinfo response       *)
(*   USERNAME_RESOLVED  claimed holds a username                           *)
(*   FILTERED           username holds what the whitelist block left       *)
(*   DONE               pc "returned", userdict holds the result           *)
(*   FAILED             pc "raised"                                        *)
(* The last four are passed in one stretch without a yield.                *)
(***************************************************************************)
\* the steps of pc: forwards one state at a time, to "raised" from any state
\* under way, and from an end state to the "start" of the next login
PcOrder ==
    {<<"start", "token_fetch">>, <<"token_fetch", "userinfo_fetch">>,
     <<"userinfo_fetch", "returned">>,
     <<"start", "raised">>, <<"token_fetch", "raised">>, <<"userinfo_fetch", "raised">>,
     <<"returned", "start">>, <<"raised", "start">>}

\* the fetch outcome is a 200 whose body parsed
Good(r) == r.status = 200 /\ r.valid_json

\* C13: an attempt passes its states in the order START, CODE_RECEIVED,
\* TOKEN_ACQUIRED, IDENTITY_FETCHED, USERNAME_RESOLVED, FILTERED, DONE, none
\* skipped and none entered twice: the userinfo request goes out only in the
\* step in which this attempt's token response arrived and parsed, and it
\* carries the access_token of that response; a username is claimed only in
\* the step in which this attempt's userinfo response arrived and parsed, from
\* that response; a result is returned only from the wait for the userinfo
\* response, with a username claimed and the whitelist passed.
C13_StatesInOrder ==
    [][\A a \in Attempts :
         /\ pc'[a] # pc[a] => <<pc[a], pc'[a]>> \in PcOrder
         /\ pc'[a] = "token_fetch"
              => /\ code'[a] = IssuedCode(a)
                 /\ requests'[a] = <<[method |-> "POST", path |-> "/oauth2/token",
                                       param |-> code'[a]]>>
                 /\ responses'[a] = <<>>
         /\ pc'[a] = "userinfo_fetch"
              => /\ Len(responses'[a]) = 1
                 /\ Good(responses'[a][1])
                 /\ token_response'[a] = responses'[a][1].json
                 /\ access_token'[a] = responses'[a][1].json.access_token
                 /\ Len(requests'[a]) = 2
                 /\ requests'[a][2] = [method |-> "GET", path |-> "/oauth2/userinfo",
                                        param |-> access_token'[a]]
                 /\ resp_json'[a] = NoJson
                 /\ claimed'[a] = None
         /\ Len(requests'[a]) > Len(requests[a])
              => \/ pc[a] = "start" /\ pc'[a] = "token_fetch"
                 \/ pc[a] = "token_fetch" /\ pc'[a] = "userinfo_fetch"
         /\ (resp_json'[a] # NoJson \/ claimed'[a] # None)
              => /\ Len(responses'[a]) = 2
                 /\ Good(responses'[a][2])
                 /\ resp_json'[a] = responses'[a][2].json
                 /\ claimed'[a] \in {resp_json'[a][c] : c \in DOMAIN resp_json'[a]}
                                       \cup {None}
         /\ pc'[a] = "returned"
              => /\ claimed'[a] \notin {None, <<>>}
                 /\ idp_whitelist # <<>>
                      => /\ OneAt(claimed'[a])
                         /\ IdpSuffix(claimed'[a]) \in Range(idp_whitelist)
                 /\ userdict'[a].name = username'[a]
                 /\ \/ username'[a] = claimed'[a]
                    \/ OneAt(claimed'[a]) /\ username'[a] = Localpart(claimed'[a])
         /\ userdict'[a] # NoJson => pc'[a] = "returned"]_vars

\* one attempt returned with the second token while the other, which got the
\* first token, waits for its userinfo response
C13_Witness ==
    /\ pc[1] = "userinfo_fetch"
    /\ access_token[1] = "t1"
    /\ pc[2] = "returned"
    /\ userdict[2].auth_state.access_token = "t2"
    /\ requests[2][2].param = "t2"

(***************************************************************************)
(* Failures of a login attempt, checked under SpecAuth.                    *)
(***************************************************************************)
\* everything attempt a holds
Frame(a) ==
    [pc |-> pc[a], code |-> code[a], token_response |-> token_response[a],
     access_token |-> access_token[a], resp_json |-> resp_json[a],
     username |-> username[a], userdict |-> userdict[a], raised |-> raised[a],
     requests |-> requests[a], responses |-> responses[a], claimed |-> claimed[a]]

\* the k-th answer the attempt got is a failure of that step: no 200, a body
\* that does not parse, a token response without access_token, a userinfo
\* response none of whose listed claims has a value, a username the
\* whitelist block does not let through
FailedAt(a, k) ==
    /\ k <= Len(responses[a])
    /\ \/ ~Good(responses[a][k])
       \/ k = 1 /\ "access_token" \notin DOMAIN responses[a][1].json
       \/ k = 2 /\ \A i \in 1..Len(claimlist) :
                      ~HasValue(responses[a][2].json, claimlist[i])
       \/ k = 2 /\ idp_whitelist # <<>>
                /\ ~(OneAt(claimed[a]) /\ IdpSuffix(claimed[a]) \in Range(idp_whitelist))

\* C14: an attempt one of whose steps failed has raised, has returned
\* nothing, and has sent no request after the answer that failed; a raised
\* attempt does nothing more (its frame stays as it is until it is dropped);
\* no attempt sends more than the one token request and, after it, the one
\* userinfo request.
C14_FailureEndsAttempt ==
    [][\A a \in Attempts :
         /\ (\A k \in 1..2 :
                FailedAt(a, k)
                   => /\ pc[a] = "raised"
                      /\ raised[a] # NoExc
                      /\ userdict[a] = NoJson
                      /\ Len(responses[a]) = k
                      /\ Len(requests[a]) = k)'
         /\ (/\ Len(requests[a]) <= 2
             /\ Len(requests[a]) >= 1 => requests[a][1].path = "/oauth2/token"
             /\ Len(requests[a]) = 2 => requests[a][2].path = "/oauth2/userinfo"
             /\ Len(responses[a]) <= Len(requests[a]))'
         /\ pc[a] = "raised"
              => Frame(a)' = Frame(a) \/ Frame(a)' = NewFrame]_vars

\* an attempt failed because its userinfo fetch got no response, after a
\* token response that was good
C14_Witness ==
    \E a \in Attempts :
       /\ pc[a] = "raised"
       /\ raised[a].exc = "httpclient.HTTPError"
       /\ Len(responses[a]) = 2
       /\ responses[a][2].status = 599
       /\ Len(requests[a]) = 2
       /\ userdict[a] = NoJson

\* the state a call leaves behind, for as long as nobody modifies the file:
\* no file, or a file that is not newer than prev_map_mtime
AsLeftByCall == mapfile.exists => mapfile.st_mtime <= prev_map_mtime

\* C15: every call leaves the hub and the file in a state (AsLeftByCall) from
\* which, the file not having been modified, the next call takes the file's
\* st_mtime with its one os.stat, does not open the file, and leaves
\* username_map and prev_map_mtime unchanged; it fails only when os.stat does.
C15_SecondCallOnlyStats ==
    [][/\ Called => AsLeftByCall'
       /\ (call # NoCall /\ call' = NoCall /\ AsLeftByCall) => AsLeftByCall'
       /\ (Called /\ AsLeftByCall)
            => /\ call'.st_mtime = mapfile.st_mtime
               /\ ~call'.opened
               /\ username_map' = username_map
               /\ prev_map_mtime' = prev_map_mtime
               /\ mapfile' = mapfile
               /\ call'.exc = IF mapfile.exists THEN "" ELSE "FileNotFoundError"]_vars

\* a call answered b for A from the table of the last load, the file having
\* the st_mtime and the lines of that load
C15_Witness ==
    /\ call # NoCall
    /\ ~call.opened
    /\ call.exc = ""
    /\ ~edited
    /\ mapfile.exists
    /\ mapfile.st_mtime = prev_map_mtime
    /\ call.username = <<"A">>
    /\ call.result = <<"b">>

(***************************************************************************)
(* The hub normalizing usernames in calls that overlap.                    *)
(***************************************************************************)
NextThreads ==
    \/ \E t \in Threads : os_stat(t)
    \/ \E t \in Threads : compare_mtime(t)
    \/ \E t \in Threads : set_prev_map_mtime(t)
    \/ \E t \in Threads : \E can_open \in BOOLEAN : open_mapfile(t, can_open)
    \/ \E t \in Threads : read_line(t)
    \/ \E t \in Threads : \E name \in Usernames : map_lookup(t, name)
    \/ \E t \in Threads : thread_done(t)
    \/ AllIdle /\ \E line \in FileLines, mtime \in Mtimes : append_line(line, mtime)
    \/ AllIdle /\ \E i \in 1..MaxLines, mtime \in Mtimes : delete_line(i, mtime)
    \/ AllIdle /\ \E mtime \in Mtimes : touch_file(mtime)
    \/ AllIdle /\ remove_file

SpecThreads == InitMap /\ [][NextThreads]_vars

(***************************************************************************)
(* Properties of overlapping normalize_username calls, checked under       *)
(* SpecThreads.                                                            *)
(***************************************************************************)
\* the call has opened the file and its loop is not over
Reading(t) == thread[t].pc = "read"

\* the table the loop of call t ends with, run alone from the table it found
Rebuilt(t) == ReadLines(thread[t].old, mapfile.lines, 1).map

\* C16: whenever a call looks its name up while another call is reading the
\* file, the username_map it reads is the table that call found when it
\* opened the file or the table its loop ends with, never one in between.
C16_NoPartialTableRead ==
    [][\A r \in Threads :
         (thread[r].pc = "lookup" /\ thread'[r].pc = "returned")
            => \A w \in Threads \ {r} :
                  Reading(w) => username_map \in {thread[w].old, Rebuilt(w)}]_vars

\* the call checked the st_mtime it saw against prev_map_mtime, found the
\* file newer, and its loop over the file is not over
Rebuilding(t) == thread[t].pc \in {"set_mtime", "open", "read"}

\* the call has read the file to its end
HasRebuilt(t) == thread[t].pc \in {"lookup", "returned"} /\ thread[t].line > 0

\* C17: no two calls are rebuilding at once, and when two calls that saw the
\* same st_mtime have both read the file to its end, username_map is what
\* one run of the loop over the file leaves.
C17_RebuildsSerialized ==
    \A t \in Threads : \A u \in Threads \ {t} :
       /\ ~(Rebuilding(t) /\ Rebuilding(u))
       /\ (HasRebuilt(t) /\ HasRebuilt(u) /\ thread[t].mtime = thread[u].mtime)
             => username_map = Rebuilt(t)

(***************************************************************************)
(* Overlapping logins do not hold each other up, checked under SpecHub.    *)
(***************************************************************************)
Waiting(a) == pc[a] \in {"token_fetch", "userinfo_fetch"}

Ended(a) == pc[a] \in {"returned", "raised"}

\* C18: every step is the step of one attempt and changes that attempt's
\* frame alone, never another attempt's frame nor the configuration; an
\* attempt that waits for an answer can take it whatever the other attempts
\* do, and an attempt whose answers arrive goes on from each wait to its
\* return or raise, also while an attempt of Unanswered waits for ever.
C18_LoginsDoNotBlock ==
    /\ [][/\ \E a \in Attempts : \A b \in Attempts \ {a} : Frame(b)' = Frame(b)
          /\ config_vars' = config_vars
          /\ \A a \in Attempts :
                /\ pc[a] = "token_fetch" => ENABLED token_answered(a)
                /\ pc[a] = "userinfo_fetch" => ENABLED userinfo_answered(a)]_vars
    /\ \A a \in Attempts \ Unanswered : Waiting(a) ~> Ended(a)

\* the second attempt returned while the first still waits for its token
\* response
C18_Witness ==
    /\ pc[1] = "token_fetch"
    /\ responses[1] = <<>>
    /\ pc[2] = "returned"
    /\ Len(responses[2]) = 2

\* C19: the name of every dictionary authenticate returns is not empty,
\* whatever idp_whitelist and strip_idp_domain are.
C19_NameNeverEmpty ==
    \A a \in Attempts : pc[a] = "returned" => userdict[a].name # <<>>

\* the larger of two modification times
Later(m, n) == IF m >= n THEN m ELSE n

\* C20: prev_map_mtime starts at 0 and no step makes it smaller; a call
\* whose os.stat succeeded leaves it at the larger of what it was and the
\* st_mtime the call saw, and no other step changes it, so after every such
\* call it is the largest of 0 and the st_mtime of every call so far.  Hence
\* a call that finds prev_map_mtime still 0 and a file with a positive
\* st_mtime goes into the rebuild, and a call that finds the file's st_mtime
\* behind prev_map_mtime does not open it and leaves username_map alone,
\* also when the file's lines have changed.
C20_MtimeOnlyAdvances ==
    [][/\ prev_map_mtime' >= prev_map_mtime
       /\ prev_map_mtime >= 0
       /\ ~Called => prev_map_mtime' = prev_map_mtime
       /\ (Called /\ ~mapfile.exists) => prev_map_mtime' = prev_map_mtime
       /\ (Called /\ mapfile.exists)
            => /\ call'.st_mtime = mapfile.st_mtime
               /\ prev_map_mtime' = Later(prev_map_mtime, call'.st_mtime)
       /\ (Called /\ mapfile.exists /\ prev_map_mtime = 0 /\ mapfile.st_mtime > 0)
            => call'.opened \/ call'.exc = "OSError"
       /\ (Called /\ mapfile.exists /\ mapfile.st_mtime < prev_map_mtime)
            => /\ ~call'.opened
               /\ username_map' = username_map
               /\ call'.exc = ""]_vars

\* a call left alone a file whose lines were changed and whose st_mtime was
\* set back behind the last load
C20_Witness ==
    /\ call # NoCall
    /\ call.exc = ""
    /\ ~call.opened
    /\ edited
    /\ mapfile.exists
    /\ call.st_mtime < prev_map_mtime
    /\ Len(mapfile.lines) = MaxLines
    /\ username_map = EmptyDict

====
